---------------------------- MODULE Spec2Model ----------------------------
(***************************************************************************)
(* Model of the autonomous blogging pipeline:                              *)
(*   pipeline/keyword_discovery.py  KeywordDiscovery (cache + providers)   *)
(*   pipeline/run_pipeline.py       BlogPipeline     (nine-stage run)      *)
(*                                                                         *)
(* Python values.  A str is a sequence of pieces tagged "str": the         *)
(* characters of the topic one by one, the literal text of an f-string     *)
(* template as one piece.  A number is <<"num", literal>>.  A list is a     *)
(* sequence of values, a dict a function from key names to values.         *)
(* None is the record None.  An exception is the text str(e) gives.        *)
(***************************************************************************)
EXTENDS Integers, Sequences, FiniteSets, TLC

VARIABLES
    files,      \* the cache directory: path -> [exists, data (lines)]
    clock,      \* what datetime.now() last returned
    kd,         \* per process: the frame of its discover() invocation
    seen,       \* per process: what its discover() invocation did (observation)
    config,     \* BlogPipeline.config
    modules,    \* BlogPipeline.modules, the stage registry (keys present)
    rpc,        \* position of the pipeline process in __init__ / run
    loc,        \* locals of run(): topic, keywords, content, images, url, ...
    ret,        \* what run() returned to its caller
    trace,      \* stages invoked by the current run, in order (observation)
    last,       \* the call of discover before the current one, for a caller that
                \* calls discover itself (observation)
    calls,      \* top-level calls started so far
    writes      \* the cache writes that completed, in order (observation)

vars == <<files, clock, kd, seen, config, modules, rpc, loc, ret, trace, last, calls,
          writes>>

-----------------------------------------------------------------------------
(* Bounds *)

\* top-level calls (discover or run) in one behaviour
MaxCalls == 2

\* largest value the clock reaches
MaxClock == 1

\* the topics callers pass: one with a space, the same with an underscore
\* in its place, and one with two consecutive spaces
Topics == { <<"a", " ", "b">>, <<"a", "_", "b">>, <<"a", " ", " ", "b">> }

\* "main" runs calls one after the other; "other" is a second process using
\* the same cache directory
Procs == {"main", "other"}

-----------------------------------------------------------------------------
(* Python values *)

None == [NoneType |-> TRUE]

PyStr(s) == <<"str">> \o s

PyNum(lit) == <<"num", lit>>

EmptyDict == << >>

\* truth value of `not result` for the values result takes
Not(v) == v = None \/ v = EmptyDict

\* str.replace(old, new) for a one-character old
RECURSIVE Replace(_, _, _)
Replace(s, old, new) ==
    IF s = << >> THEN << >>
    ELSE (IF Head(s) = old THEN new ELSE <<Head(s)>>) \o Replace(Tail(s), old, new)

\* datetime.now().isoformat() at clock value t
Isoformat(t) == PyStr(<<"2025-01-01T00:00:0" \o ToString(t)>>)

-----------------------------------------------------------------------------
(* keyword_discovery.py: the providers' and the fallback's results *)

CacheDir == "cache/keywords"

\* s with every run of spaces made one space
RECURSIVE Collapse(_)
Collapse(s) ==
    IF Len(s) < 2 THEN s
    ELSE IF s[1] = " " /\ s[2] = " " THEN Collapse(Tail(s))
    ELSE <<s[1]>> \o Collapse(Tail(s))

\* mutant: the key is built from the topic with its whitespace collapsed
CacheFile_Collapsed(topic) ==
    <<CacheDir, "/">> \o Replace(Collapse(topic), " ", <<"_">>) \o <<".json">>

\* os.path.join(self.cache_dir, f"{topic.replace(' ', '_')}.json")
CacheFile(topic) == <<CacheDir, "/">> \o Replace(topic, " ", <<"_">>) \o <<".json">>

SerpapiResult(topic) ==
    [ primary_keyword |-> PyStr(topic),
      related_queries |-> <<
          PyStr(topic \o <<" best practices">>),
          PyStr(topic \o <<" examples">>),
          PyStr(<<"how to ">> \o topic),
          PyStr(topic \o <<" tutorial">>),
          PyStr(topic \o <<" for beginners">>) >>,
      top_urls |-> <<
          PyStr(<<"https://example.com/">> \o Replace(topic, " ", <<"-">>) \o <<"-guide">>),
          PyStr(<<"https://example.org/learn-">> \o Replace(topic, " ", <<"-">>)),
          PyStr(<<"https://tutorial.com/">> \o Replace(topic, " ", <<"_">>) \o <<"_101">>) >>,
      metrics |-> [ search_volume |-> PyNum("1200"),
                    cpc |-> PyNum("0.75"),
                    competition |-> PyNum("0.65") ],
      source |-> PyStr(<<"serpapi_simulation">>) ]

KeywordsurferResult(topic) ==
    [ primary_keyword |-> PyStr(topic),
      related_queries |-> <<
          PyStr(topic \o <<" guide">>),
          PyStr(<<"best ">> \o topic \o <<" practices">>),
          PyStr(topic \o <<" tips and tricks">>),
          PyStr(topic \o <<" for professionals">>),
          PyStr(<<"advanced ">> \o topic) >>,
      top_urls |-> <<
          PyStr(<<"https://guide.com/complete-">> \o Replace(topic, " ", <<"-">>) \o <<"-guide">>),
          PyStr(<<"https://blog.example.com/mastering-">> \o Replace(topic, " ", <<"-">>)),
          PyStr(<<"https://academy.example.org/">> \o Replace(topic, " ", <<"_">>) \o <<"_masterclass">>) >>,
      metrics |-> [ search_volume |-> PyNum("980"),
                    cpc |-> PyNum("0.82"),
                    competition |-> PyNum("0.58") ],
      source |-> PyStr(<<"keywordsurfer_simulation">>) ]

GoogleTrendsResult(topic) ==
    [ primary_keyword |-> PyStr(topic),
      related_queries |-> <<
          PyStr(topic \o <<" 2025">>),
          PyStr(<<"latest ">> \o topic \o <<" trends">>),
          PyStr(topic \o <<" innovations">>),
          PyStr(<<"future of ">> \o topic),
          PyStr(topic \o <<" industry insights">>) >>,
      top_urls |-> <<
          PyStr(<<"https://trends.google.com/trends/explore?q=">> \o Replace(topic, " ", <<"%", "2", "0">>)),
          PyStr(<<"https://news.example.com/">> \o Replace(topic, " ", <<"-">>) \o <<"-trends-2025">>),
          PyStr(<<"https://research.example.org/future-of-">> \o Replace(topic, " ", <<"-">>)) >>,
      metrics |-> [ search_volume |-> PyNum("850"),
                    cpc |-> PyNum("0.65"),
                    competition |-> PyNum("0.72") ],
      source |-> PyStr(<<"google_trends_simulation">>) ]

\* mutant: the fallback reports zero metrics and a placeholder URL
FallbackResult_Zero(topic, now) ==
    [ primary_keyword |-> PyStr(topic),
      related_queries |-> << PyStr(topic \o <<" guide">>) >>,
      top_urls |-> << PyStr(<<"https://example.com/">>) >>,
      metrics |-> [ search_volume |-> PyNum("0"),
                    cpc |-> PyNum("0"),
                    competition |-> PyNum("0") ],
      source |-> PyStr(<<"fallback_method">>),
      generated_at |-> Isoformat(now) ]

\* mutant: one of the fallback's queries is a fixed phrase without the topic
FallbackResult_Generic(topic, now) ==
    [ primary_keyword |-> PyStr(topic),
      related_queries |-> <<
          PyStr(topic \o <<" guide">>),
          PyStr(<<"how to ">> \o topic),
          PyStr(<<"best ">> \o topic \o <<" practices">>),
          PyStr(topic \o <<" examples">>),
          PyStr(topic \o <<" tutorial">>),
          PyStr(topic \o <<" for beginners">>),
          PyStr(<<"advanced ">> \o topic),
          PyStr(<<"tips and tricks">>),
          PyStr(topic \o <<" 2025">>),
          PyStr(topic \o <<" tools">>) >>,
      top_urls |-> << >>,
      metrics |-> [ search_volume |-> PyStr(<<"unknown">>),
                    cpc |-> PyStr(<<"unknown">>),
                    competition |-> PyStr(<<"unknown">>) ],
      source |-> PyStr(<<"fallback_method">>),
      generated_at |-> Isoformat(now) ]

\* _fallback_method(topic) when datetime.now() returns `now`
FallbackResult(topic, now) ==
    [ primary_keyword |-> PyStr(topic),
      related_queries |-> <<
          PyStr(topic \o <<" guide">>),
          PyStr(<<"how to ">> \o topic),
          PyStr(<<"best ">> \o topic \o <<" practices">>),
          PyStr(topic \o <<" examples">>),
          PyStr(topic \o <<" tutorial">>),
          PyStr(topic \o <<" for beginners">>),
          PyStr(<<"advanced ">> \o topic),
          PyStr(topic \o <<" tips">>),
          PyStr(topic \o <<" 2025">>),
          PyStr(topic \o <<" tools">>) >>,
      top_urls |-> << >>,
      metrics |-> [ search_volume |-> PyStr(<<"unknown">>),
                    cpc |-> PyStr(<<"unknown">>),
                    competition |-> PyStr(<<"unknown">>) ],
      source |-> PyStr(<<"fallback_method">>),
      generated_at |-> Isoformat(now) ]

-----------------------------------------------------------------------------
(* json.dump(result, f, indent=2) and json.load(f).  A document is the     *)
(* sequence of its lines; a line is a sequence of strings.                 *)

\* insertion order of the keys of the dicts the module builds
KeyOrder == << "primary_keyword", "related_queries", "top_urls", "metrics",
               "source", "generated_at" >>

MetricOrder == << "search_volume", "cpc", "competition" >>

ListKeys == {"related_queries", "top_urls"}

DictKeys == {"metrics"}

RECURSIVE DumpItems(_)
DumpItems(l) ==
    IF l = << >> THEN << >> ELSE << <<"item">> \o Head(l) >> \o DumpItems(Tail(l))

RECURSIVE DumpMembers(_, _, _)
DumpMembers(d, order, i) ==
    IF i > Len(order) THEN << >>
    ELSE LET k == order[i]
             rest == DumpMembers(d, order, i + 1)
         IN  IF k \notin DOMAIN d THEN rest
             ELSE IF k \in ListKeys
                  THEN (IF d[k] = << >>
                        THEN << <<"key", k, "[]">> >>
                        ELSE << <<"key", k, "[">> >> \o DumpItems(d[k]) \o << <<"]">> >>)
                       \o rest
             ELSE IF k \in DictKeys
                  THEN << <<"key", k, "{">> >> \o DumpMembers(d[k], MetricOrder, 1)
                       \o << <<"}">> >> \o rest
             ELSE << <<"key", k>> \o d[k] >> \o rest

JsonDump(d) == << <<"{">> >> \o DumpMembers(d, KeyOrder, 1) \o << <<"}">> >>

ParseFail == [ok |-> FALSE, val |-> EmptyDict]

\* a line that begins an object or an array, and one that ends it
IsOpen(l) == l = <<"{">> \/ (Len(l) = 3 /\ l[1] = "key" /\ l[3] \in {"[", "{"})

IsClose(l) == l \in { <<"]">>, <<"}">> }

\* how many objects and arrays are open where line i begins
Depth(c, i) ==
    Cardinality({j \in 1..(i - 1) : IsOpen(c[j])})
        - Cardinality({j \in 1..(i - 1) : IsClose(c[j])})

Largest(S) == CHOOSE x \in S : \A y \in S : y <= x

Smallest(S) == CHOOSE x \in S : \A y \in S : x <= y

\* one pass over the document: for each line, the line that begins the
\* object or array it is in (0: none)
Openers(c) ==
    LET depth == << >> \o [i \in 1..(Len(c) + 1) |-> Depth(c, i)]
    IN  << >> \o [i \in 1..Len(c) |->
                     LET S == {j \in 1..(i - 1) : IsOpen(c[j]) /\ depth[j] = depth[i] - 1}
                     IN  IF S = { } THEN 0 ELSE Largest(S)]

KindAt(c, j) ==
    IF j = 0 THEN "none"
    ELSE IF c[j] = <<"{">> \/ c[j][3] = "{" THEN "dict"
    ELSE "list"

\* line i is one the decoder accepts where it stands
LineOk(c, opener, i) ==
    IF i = 1 THEN c[1] = <<"{">>
    ELSE IF KindAt(c, opener[i]) = "dict"
         THEN c[i] = <<"}">> \/ (Len(c[i]) >= 3 /\ c[i][1] = "key")
    ELSE IF KindAt(c, opener[i]) = "list"
         THEN c[i] = <<"]">> \/ (Len(c[i]) >= 2 /\ c[i][1] = "item")
    ELSE FALSE

\* one object, begun by the first line and ended by the last
WellFormed(c, opener) ==
    /\ Len(c) >= 2
    /\ \A i \in 1..Len(c) : LineOk(c, opener, i)
    /\ \A i \in 2..Len(c) : opener[i] # 0
    /\ Depth(c, Len(c) + 1) = 0

\* the line that ends what line o begins
CloseOf(c, opener, o) ==
    Smallest({j \in (o + 1)..Len(c) : IsClose(c[j]) /\ opener[j] = o})

\* mutant: the items of a list are read back in reverse order
ItemAt_Reversed(first, n, k) == first + n - k

\* the line of the k-th of the n items of an array whose items begin at `first`
ItemAt(first, n, k) == first + k - 1

\* the list begun by line o
ListAt(c, opener, o) ==
    LET n == CloseOf(c, opener, o) - o - 1
    IN  [k \in 1..n |-> Tail(c[ItemAt(o + 1, n, k)])]

\* the member lines of the object begun by line o
MemberLines(c, opener, o) ==
    {i \in (o + 1)..Len(c) : opener[i] = o /\ c[i] # <<"}">>}

\* the dict begun by line o: of two members with one key the later stands
RECURSIVE DictAt(_, _, _)
DictAt(c, opener, o) ==
    LET members == MemberLines(c, opener, o)
    IN  [k \in {c[i][2] : i \in members} |->
            LET i == Largest({x \in members : c[x][2] = k})
            IN  IF c[i][3] = "[]" THEN << >>
                ELSE IF c[i][3] = "[" THEN ListAt(c, opener, i)
                ELSE IF c[i][3] = "{" THEN DictAt(c, opener, i)
                ELSE SubSeq(c[i], 3, Len(c[i]))]

\* json.load: [ok, val]; ok is FALSE where json.load raises JSONDecodeError
JsonLoad(c) ==
    LET opener == Openers(c)
    IN  IF WellFormed(c, opener)
        THEN [ok |-> TRUE, val |-> DictAt(c, opener, 1)]
        ELSE ParseFail

-----------------------------------------------------------------------------
(* The cache directory *)

CacheFiles == { CacheFile(t) : t \in Topics }

NoFile == [exists |-> FALSE, data |-> << >>]

\* open(cache_file, 'w'): the file exists and is empty
Truncated == [exists |-> TRUE, data |-> << >>]

\* a write of `new` at offset 0 of a file holding `old`
WriteAt0(old, new) == new \o SubSeq(old, Len(new) + 1, Len(old))

\* how many lines of the document reach the file when the write fails:
\* none (an empty file) or the first only (a truncated file)
PartialLens(doc) == {0, 1}

-----------------------------------------------------------------------------
(* KeywordDiscovery.discover, one action per statement *)

NoRet == [kind |-> "none", value |-> None, text |-> ""]

Returned(v) == [kind |-> "returned", value |-> v, text |-> ""]

Raised(text) == [kind |-> "raised", value |-> None, text |-> text]

IdleFrame == [pc |-> "idle", topic |-> << >>, cache_file |-> << >>,
              result |-> None, ret |-> NoRet]

\* discover() touches nothing of the pipeline object or of its caller
RunUnchanged == UNCHANGED <<config, modules, rpc, loc, ret, trace, last, calls>>

NothingSeen == [entry |-> NoFile, invoked |-> << >>, fetched |-> << >>, faults |-> << >>]

\* what discover(topic) of process p starts with (lines 26-37)
EnterFrame(topic) ==
    [pc |-> "exists", topic |-> topic, cache_file |-> CacheFile(topic),
     result |-> None, ret |-> NoRet]

EnterSeen(topic) ==
    [entry |-> files[CacheFile(topic)], invoked |-> << >>, fetched |-> << >>,
     faults |-> << >>]

\* the guards of the chain (lines 55, 62, 69)
NeedKeywordsurfer(result) == Not(result)

\* mutant: Google Trends is tried whatever the earlier providers gave
NeedGoogleTrends_Always(result) == TRUE

NeedGoogleTrends(result) == Not(result)

\* mutant: the fallback is used whatever the providers gave
NeedFallback_Always(result) == TRUE

NeedFallback(result) == Not(result)

\* mutant: the cache is never consulted
Exists_Never(path) == FALSE

\* os.path.exists(cache_file) (line 38)
Exists(path) == files[path].exists

\* the except clauses of the providers (lines 51-52, 58-59, 65-66): the
\* failure is logged, result stays as it is and the chain goes on
\* mutant: SerpAPI's exception leaves discover
OnSerpapiError_Propagates(frame) ==
    [frame EXCEPT !.pc = "done", !.ret = Raised("SerpAPI unavailable")]

OnSerpapiError(frame) == [frame EXCEPT !.pc = "keywordsurfer"]

OnKeywordsurferError(frame) == [frame EXCEPT !.pc = "google_trends"]

OnGoogleTrendsError(frame) == [frame EXCEPT !.pc = "fallback"]

\* the observation of a cache operation of process p that failed
Fault(p, op) == seen' = [seen EXCEPT ![p].faults = Append(@, op)]

\* the observation of one unit's invocation by process p
Saw(p, unit, value) ==
    seen' = [seen EXCEPT ![p].invoked = Append(@, unit),
                         ![p].fetched = Append(@, value)]

\* line 38: if os.path.exists(cache_file)
D_exists(p) ==
    /\ kd[p].pc = "exists"
    /\ kd' = [kd EXCEPT ![p].pc = IF Exists(kd[p].cache_file) THEN "load" ELSE "serpapi"]
    /\ UNCHANGED <<files, clock, writes, seen>>
    /\ RunUnchanged

\* mutant: a hit writes the entry it has read back to the cache
Loaded_Refresh(frame) ==
    LET f == files[frame.cache_file]
        r == JsonLoad(f.data)
    IN  IF f.exists /\ r.ok
        THEN [frame EXCEPT !.pc = "open", !.result = r.val]
        ELSE [frame EXCEPT !.pc = "done", !.ret = Raised("JSONDecodeError")]

\* mutant: a result read from the cache is tagged as coming from the cache
Loaded_Tagged(frame) ==
    LET f == files[frame.cache_file]
        r == JsonLoad(f.data)
    IN  [frame EXCEPT !.pc = "done",
                      !.ret = IF ~f.exists THEN Raised("FileNotFoundError")
                              ELSE IF r.ok
                                   THEN Returned([r.val EXCEPT !.source = PyStr(<<"cache">>)])
                              ELSE Raised("JSONDecodeError")]

\* lines 40-41: with open(cache_file, 'r') as f: return json.load(f),
\* where the frame of the call ends up
Loaded(frame) ==
    LET f == files[frame.cache_file]
        r == JsonLoad(f.data)
    IN  [frame EXCEPT !.pc = "done",
                      !.ret = IF ~f.exists THEN Raised("FileNotFoundError")
                              ELSE IF r.ok THEN Returned(r.val)
                              ELSE Raised("JSONDecodeError")]

D_load(p) ==
    /\ kd[p].pc = "load"
    /\ kd' = [kd EXCEPT ![p] = Loaded(kd[p])]
    /\ seen' = [seen EXCEPT ![p].faults =
                   IF Loaded(kd[p]).ret.kind = "raised" THEN Append(@, "load") ELSE @]
    /\ UNCHANGED <<files, clock, writes>>
    /\ RunUnchanged

\* lines 46-52: result = None; try: result = self._try_serpapi(topic)
D_serpapi(p) ==
    /\ kd[p].pc = "serpapi"
    /\ \/ /\ kd' = [kd EXCEPT ![p].pc = "keywordsurfer",
                              ![p].result = SerpapiResult(kd[p].topic)]
          /\ Saw(p, "serpapi", SerpapiResult(kd[p].topic))
       \/ /\ kd' = [kd EXCEPT ![p] = OnSerpapiError(kd[p])]
          /\ Saw(p, "serpapi", None)
    /\ UNCHANGED <<files, clock, writes>>
    /\ RunUnchanged

\* lines 55-59: if not result: try: result = self._try_keywordsurfer(topic)
D_keywordsurfer(p) ==
    /\ kd[p].pc = "keywordsurfer"
    /\ IF NeedKeywordsurfer(kd[p].result)
       THEN \/ /\ kd' = [kd EXCEPT ![p].pc = "google_trends",
                                   ![p].result = KeywordsurferResult(kd[p].topic)]
               /\ Saw(p, "keywordsurfer", KeywordsurferResult(kd[p].topic))
            \/ /\ kd' = [kd EXCEPT ![p] = OnKeywordsurferError(kd[p])]
               /\ Saw(p, "keywordsurfer", None)
       ELSE /\ kd' = [kd EXCEPT ![p].pc = "google_trends"]
            /\ UNCHANGED seen
    /\ UNCHANGED <<files, clock, writes>>
    /\ RunUnchanged

\* lines 62-66: if not result: try: result = self._try_google_trends(topic)
D_google_trends(p) ==
    /\ kd[p].pc = "google_trends"
    /\ IF NeedGoogleTrends(kd[p].result)
       THEN \/ /\ kd' = [kd EXCEPT ![p].pc = "fallback",
                                   ![p].result = GoogleTrendsResult(kd[p].topic)]
               /\ Saw(p, "google_trends", GoogleTrendsResult(kd[p].topic))
            \/ /\ kd' = [kd EXCEPT ![p] = OnGoogleTrendsError(kd[p])]
               /\ Saw(p, "google_trends", None)
       ELSE /\ kd' = [kd EXCEPT ![p].pc = "fallback"]
            /\ UNCHANGED seen
    /\ UNCHANGED <<files, clock, writes>>
    /\ RunUnchanged

\* lines 69-71: if not result: result = self._fallback_method(topic)
D_fallback(p) ==
    /\ kd[p].pc = "fallback"
    /\ IF NeedFallback(kd[p].result)
       THEN \E now \in clock..MaxClock :
               /\ clock' = now
               /\ kd' = [kd EXCEPT ![p].pc = "open",
                                   ![p].result = FallbackResult(kd[p].topic, now)]
               /\ Saw(p, "fallback", FallbackResult(kd[p].topic, now))
       ELSE /\ kd' = [kd EXCEPT ![p].pc = "open"]
            /\ UNCHANGED <<clock, seen>>
    /\ UNCHANGED <<files, writes>>
    /\ RunUnchanged

\* line 74: with open(cache_file, 'w') as f
D_open(p) ==
    /\ kd[p].pc = "open"
    /\ \/ /\ files' = [files EXCEPT ![kd[p].cache_file] = Truncated]
          /\ kd' = [kd EXCEPT ![p].pc = "dump"]
          /\ UNCHANGED seen
       \/ /\ kd' = [kd EXCEPT ![p].pc = "done",
                              ![p].ret = Raised("[Errno 13] Permission denied")]
          /\ Fault(p, "open")
          /\ UNCHANGED files
    /\ UNCHANGED <<clock, writes>>
    /\ RunUnchanged

\* the observation of a write that completed: who wrote, for which topic,
\* which unit had computed the result, and the document
Written(p, doc) ==
    [proc |-> p, topic |-> kd[p].topic, path |-> kd[p].cache_file,
     unit |-> seen[p].invoked[Len(seen[p].invoked)], doc |-> doc]

\* lines 75-77: json.dump(result, f, indent=2); the file is closed; return result
D_dump(p) ==
    /\ kd[p].pc = "dump"
    /\ LET doc == JsonDump(kd[p].result)
           old == files[kd[p].cache_file].data
       IN  \/ /\ files' = [files EXCEPT ![kd[p].cache_file].data = WriteAt0(old, doc)]
              /\ kd' = [kd EXCEPT ![p].pc = "done", ![p].ret = Returned(kd[p].result)]
              /\ writes' = Append(writes, Written(p, doc))
              /\ UNCHANGED seen
           \/ \E n \in PartialLens(doc) :
                 /\ files' = [files EXCEPT ![kd[p].cache_file].data =
                                               WriteAt0(old, SubSeq(doc, 1, n))]
                 /\ kd' = [kd EXCEPT ![p].pc = "done",
                                     ![p].ret = Raised("[Errno 28] No space left on device")]
                 /\ Fault(p, "dump")
                 /\ UNCHANGED writes
    /\ UNCHANGED clock
    /\ RunUnchanged

-----------------------------------------------------------------------------
(* run_pipeline.py: BlogPipeline *)

\* the keys _load_modules sets, in the order it sets them (lines 60-68),
\* which is the order run invokes them in
StageNames == << "keyword", "content", "grammar", "visual", "publish",
                 "monetize", "social", "email", "analytics" >>

FirstStages(n) == { StageNames[i] : i \in 1..n }

\* what the stages other than keyword return: they are collaborators known
\* by their interface only.  "None" stands for a value without a length.
ContentValues == {"draft"}

CheckedValues == {"draft", "edited"}

ImageValues == {"[image]", "None"}

UrlValues == {"https://blog.example/post"}

MonetizedValues == {"monetized", "with ads"}

SocialValues == {"[post]", "None"}

EmailValues == {"email draft"}

\* str(e) of what a stage raises
StageErrors == {"stage failed", "stage timed out"}

\* str(KeyError(name))
KeyErrorText(name) == "'" \o name \o "'"

\* str(e) for len(None)
LenErrorText == "object of type 'NoneType' has no len()"

HasLen(v) == v # "None"

Unbound == "<unbound>"

NoLocals == [topic |-> << >>, keywords |-> None, content |-> Unbound,
             images |-> Unbound, url |-> Unbound, monetized_content |-> Unbound,
             social_posts |-> Unbound, email_draft |-> Unbound]

\* lines 124-127: the record the except clause returns
ErrorRecord(e) == [status |-> "error", message |-> e]

\* mutant: the success record carries the monetized content as its url
SuccessRecord_Monetized(l) ==
    [status |-> "success", url |-> l.monetized_content,
     social_posts |-> l.social_posts, email_draft |-> l.email_draft]

\* lines 115-120: the record run returns after stage 9
SuccessRecord(l) == [status |-> "success", url |-> l.url,
                     social_posts |-> l.social_posts, email_draft |-> l.email_draft]

\* lines 30-34, 36-43, 45-72: __init__.  _load_config gives the mapping, {}
\* after a failure, or None for an empty document; _load_modules stops at
\* the first import or constructor that raises (the imports come first).
Construct ==
    /\ rpc = "new"
    /\ \E c \in {"mapping", "{}", "None"} :
          /\ config' = c
          /\ IF c = "None"
             THEN modules' = { }
             ELSE \E n \in 0..Len(StageNames) : modules' = FirstStages(n)
    /\ rpc' = "ready"
    /\ UNCHANGED <<files, clock, writes, kd, seen, loc, ret, trace, last, calls>>

\* the previous call of main, as the next one starts
Previous == [topic |-> kd["main"].topic, ret |-> kd["main"].ret,
             entry |-> seen["main"].entry]

\* main is in no call
CanCall ==
    /\ rpc \in {"new", "ready", "done"}
    /\ kd["main"].pc \in {"idle", "done"}
    /\ calls < MaxCalls

\* a caller invokes KeywordDiscovery.discover(topic) itself
CallDiscover ==
    /\ CanCall
    /\ \E topic \in Topics :
          /\ kd' = [kd EXCEPT !["main"] = EnterFrame(topic)]
          /\ seen' = [seen EXCEPT !["main"] = EnterSeen(topic)]
    /\ last' = Previous
    /\ calls' = calls + 1
    /\ UNCHANGED <<files, clock, writes, config, modules, rpc, loc, ret, trace>>

\* lines 74-78: run(topic) is entered
RunStart ==
    /\ CanCall
    /\ rpc # "new"
    /\ \E topic \in Topics : loc' = [NoLocals EXCEPT !.topic = topic]
    /\ rpc' = "keyword"
    /\ ret' = NoRet
    /\ trace' = << >>
    /\ calls' = calls + 1
    /\ UNCHANGED <<files, clock, writes, kd, seen, config, modules, last>>

\* mutant: the except clause reports a fixed message
Except_Generic(e) ==
    /\ ret' = Returned(ErrorRecord("Pipeline failed"))
    /\ rpc' = "done"

\* mutant: the except clause logs and raises again
Except_Reraise(e) ==
    /\ ret' = Raised(e)
    /\ rpc' = "done"

\* the except clause of run (lines 122-127)
Except(e) ==
    /\ ret' = Returned(ErrorRecord(e))
    /\ rpc' = "done"

\* the observation of a stage's invocation: what it was given, and what it
\* returned or the text of what it raised
Invoked(name, args, v) ==
    [stage |-> name, args |-> args, raised |-> FALSE, text |-> "", value |-> v]

Threw(name, args, e) ==
    [stage |-> name, args |-> args, raised |-> TRUE, text |-> e, value |-> None]

\* line 80, the call: self.modules["keyword"].discover(topic)
S_keyword ==
    /\ rpc = "keyword"
    /\ IF "keyword" \in modules
       THEN /\ kd' = [kd EXCEPT !["main"] = EnterFrame(loc.topic)]
            /\ seen' = [seen EXCEPT !["main"] = EnterSeen(loc.topic)]
            /\ trace' = Append(trace, Invoked("keyword", <<loc.topic>>, None))
            /\ rpc' = "discovering"
            /\ UNCHANGED ret
       ELSE /\ Except(KeyErrorText("keyword"))
            /\ UNCHANGED <<kd, seen, trace>>
    /\ UNCHANGED <<files, clock, writes, config, modules, loc, last, calls>>

\* lines 80-81, the return: keywords = ...; the exception reaches the except clause
S_keyword_return ==
    /\ rpc = "discovering"
    /\ kd["main"].pc = "done"
    /\ IF kd["main"].ret.kind = "raised"
       THEN /\ Except(kd["main"].ret.text)
            /\ trace' = [trace EXCEPT ![Len(trace)].raised = TRUE,
                                      ![Len(trace)].text = kd["main"].ret.text]
            /\ UNCHANGED loc
       ELSE /\ loc' = [loc EXCEPT !.keywords = kd["main"].ret.value]
            /\ trace' = [trace EXCEPT ![Len(trace)].value = kd["main"].ret.value]
            /\ rpc' = "content"
            /\ UNCHANGED ret
    /\ UNCHANGED <<files, clock, writes, kd, seen, config, modules, last, calls>>

\* one stage of lines 84-109: value = self.modules[name].method(args), then
\* the logger line, which takes len(value) where `sized`
Stage(name, args, values, field, sized, next) ==
    /\ rpc = name
    /\ IF name \in modules
       THEN \/ \E v \in values :
                 /\ trace' = Append(trace, Invoked(name, args, v))
                 /\ loc' = [loc EXCEPT ![field] = v]
                 /\ IF sized /\ ~HasLen(v)
                    THEN Except(LenErrorText)
                    ELSE rpc' = next /\ UNCHANGED ret
            \/ \E e \in StageErrors :
                 /\ trace' = Append(trace, Threw(name, args, e))
                 /\ Except(e)
                 /\ UNCHANGED loc
       ELSE /\ Except(KeyErrorText(name))
            /\ UNCHANGED <<loc, trace>>
    /\ UNCHANGED <<files, clock, writes, kd, seen, config, modules, last, calls>>

\* line 84
S_content == Stage("content", <<loc.keywords>>, ContentValues, "content", FALSE, "grammar")

\* mutant: the checked content is not assigned back to content
S_grammar_Discarded ==
    Stage("grammar", <<loc.content>>, CheckedValues, "monetized_content", FALSE, "visual")

\* mutant: after the grammar check the run goes on with publishing
S_grammar_SkipsVisual ==
    Stage("grammar", <<loc.content>>, CheckedValues, "content", FALSE, "publish")

\* line 88
S_grammar == Stage("grammar", <<loc.content>>, CheckedValues, "content", FALSE, "visual")

\* lines 92-93
S_visual == Stage("visual", <<loc.content>>, ImageValues, "images", TRUE, "publish")

\* line 96
S_publish == Stage("publish", <<loc.content, loc.images>>, UrlValues, "url", FALSE, "monetize")

\* line 100
S_monetize ==
    Stage("monetize", <<loc.content, loc.url>>, MonetizedValues, "monetized_content",
          FALSE, "social")

\* lines 104-105
S_social == Stage("social", <<loc.url, loc.content>>, SocialValues, "social_posts", TRUE, "email")

\* line 108
S_email == Stage("email", <<loc.url, loc.content>>, EmailValues, "email_draft", FALSE, "analytics")

\* lines 112-120: setup_tracking(url), whose value is dropped, and the return
S_analytics ==
    /\ rpc = "analytics"
    /\ IF "analytics" \in modules
       THEN \/ /\ trace' = Append(trace, Invoked("analytics", <<loc.url>>, "None"))
               /\ ret' = Returned(SuccessRecord(loc))
               /\ rpc' = "done"
            \/ \E e \in StageErrors :
                 /\ trace' = Append(trace, Threw("analytics", <<loc.url>>, e))
                 /\ Except(e)
       ELSE /\ Except(KeyErrorText("analytics"))
            /\ UNCHANGED trace
    /\ UNCHANGED <<files, clock, writes, kd, seen, config, modules, loc, last, calls>>

-----------------------------------------------------------------------------
(* The specifications *)

Init ==
    /\ files = [f \in CacheFiles |-> NoFile]
    /\ clock = 0
    /\ kd = [p \in Procs |-> IdleFrame]
    /\ seen = [p \in Procs |-> NothingSeen]
    /\ config = "None"
    /\ modules = { }
    /\ rpc = "new"
    /\ loc = NoLocals
    /\ ret = NoRet
    /\ trace = << >>
    /\ last = [topic |-> << >>, ret |-> NoRet, entry |-> NoFile]
    /\ calls = 0
    /\ writes = << >>

\* KeywordDiscovery used by itself: calls of discover, one after the other
Next ==
    \/ CallDiscover
    \/ D_exists("main")
    \/ D_load("main")
    \/ D_serpapi("main")
    \/ D_keywordsurfer("main")
    \/ D_google_trends("main")
    \/ D_fallback("main")
    \/ D_open("main")
    \/ D_dump("main")

Spec == Init /\ [][Next]_vars

\* BlogPipeline: construction, then runs one after the other
NextRun ==
    \/ Construct
    \/ RunStart
    \/ S_keyword
    \/ D_exists("main")
    \/ D_load("main")
    \/ D_serpapi("main")
    \/ D_keywordsurfer("main")
    \/ D_google_trends("main")
    \/ D_fallback("main")
    \/ D_open("main")
    \/ D_dump("main")
    \/ S_keyword_return
    \/ S_content
    \/ S_grammar
    \/ S_visual
    \/ S_publish
    \/ S_monetize
    \/ S_social
    \/ S_email
    \/ S_analytics

SpecRun == Init /\ [][NextRun]_vars

\* a process invokes discover(topic), whatever the other process is doing
Invoke(p) ==
    /\ kd[p].pc \in {"idle", "done"}
    /\ calls < MaxCalls
    /\ \E topic \in Topics :
          /\ kd' = [kd EXCEPT ![p] = EnterFrame(topic)]
          /\ seen' = [seen EXCEPT ![p] = EnterSeen(topic)]
    /\ calls' = calls + 1
    /\ UNCHANGED <<files, clock, writes, config, modules, rpc, loc, ret, trace, last>>

\* two processes that use one cache directory: their calls of discover
\* interleave statement by statement
NextConc ==
    \/ \E p \in Procs : Invoke(p)
    \/ \E p \in Procs : D_exists(p)
    \/ \E p \in Procs : D_load(p)
    \/ \E p \in Procs : D_serpapi(p)
    \/ \E p \in Procs : D_keywordsurfer(p)
    \/ \E p \in Procs : D_google_trends(p)
    \/ \E p \in Procs : D_fallback(p)
    \/ \E p \in Procs : D_open(p)
    \/ \E p \in Procs : D_dump(p)

SpecConc == Init /\ [][NextConc]_vars

-----------------------------------------------------------------------------
(* Properties *)

\* the order discover tries its units in
ChainOrder == << "serpapi", "keywordsurfer", "google_trends", "fallback" >>

\* process p is in a call that is past its chain (lines 45-71)
ChainDone(p) ==
    \/ kd[p].pc \in {"open", "dump"}
    \/ kd[p].pc = "done" /\ seen[p].invoked # << >>

\* the entry held a document when the call was made
EntryAtCall(p) == seen[p].entry.exists /\ JsonLoad(seen[p].entry.data).ok

\* the call ended in an exception of the cache write (lines 74-75) only
WriteFailed(p) ==
    /\ kd[p].ret.kind = "raised"
    /\ seen[p].faults \in { <<"open">>, <<"dump">> }

\* C1: when the cache holds an entry for the topic's key as discover is
\* called, discover invokes no provider and not the fallback, and returns
\* the content of that entry.
C1_CacheHitReturnsEntry ==
    \A p \in Procs :
        (kd[p].pc # "idle" /\ EntryAtCall(p)) =>
            /\ seen[p].invoked = << >>
            /\ kd[p].pc \in {"exists", "load", "done"}
            /\ kd[p].pc = "done" =>
                   kd[p].ret = Returned(JsonLoad(seen[p].entry.data).val)

C1_Witness ==
    /\ kd["main"].pc = "done"
    /\ EntryAtCall("main")
    /\ kd["main"].ret.kind = "returned"
    /\ kd["main"].ret.value.source = PyStr(<<"keywordsurfer_simulation">>)

\* C2: on a miss the units are tried in the order SerpAPI, KeywordSurfer,
\* Google Trends, fallback; nothing is invoked after the first that
\* succeeds; its result is the result of the chain, and it is what discover
\* returns (the call ends otherwise only where the cache write raises).
C2_FirstSuccessWins ==
    \A p \in Procs :
        LET s == seen[p]
            n == Len(s.invoked)
        IN  /\ n <= Len(ChainOrder)
            /\ \A i \in 1..n : s.invoked[i] = ChainOrder[i]
            /\ \A i \in 1..n : s.fetched[i] # None => i = n
            /\ ChainDone(p) =>
                   /\ n >= 1
                   /\ s.fetched[n] # None
                   /\ kd[p].result = s.fetched[n]
                   /\ kd[p].pc = "done" =>
                          \/ kd[p].ret = Returned(s.fetched[n])
                          \/ WriteFailed(p)

C2_Witness ==
    /\ kd["main"].pc = "done"
    /\ seen["main"].invoked = <<"serpapi", "keywordsurfer">>
    /\ seen["main"].fetched[1] = None
    /\ kd["main"].ret = Returned(KeywordsurferResult(kd["main"].topic))

IsFallbackShaped(r) ==
    /\ r # None
    /\ {"source", "top_urls", "metrics"} \subseteq DOMAIN r
    /\ r.source = PyStr(<<"fallback_method">>)
    /\ r.top_urls = << >>
    /\ \A m \in {"search_volume", "cpc", "competition"} :
           r.metrics[m] = PyStr(<<"unknown">>)

AllProvidersFailed(p) ==
    /\ Len(seen[p].fetched) >= 3
    /\ \A i \in 1..3 : seen[p].fetched[i] = None

\* C3: on a miss where the three providers all failed, the result of the
\* chain, which is what discover returns, has source "fallback_method", no
\* top_urls, and "unknown" for search_volume, cpc and competition.
C3_TotalFallback ==
    \A p \in Procs :
        (ChainDone(p) /\ AllProvidersFailed(p)) =>
            /\ IsFallbackShaped(kd[p].result)
            /\ kd[p].pc = "done" =>
                   \/ kd[p].ret.kind = "returned" /\ IsFallbackShaped(kd[p].ret.value)
                   \/ WriteFailed(p)

C3_Witness ==
    /\ kd["main"].pc = "done"
    /\ AllProvidersFailed("main")
    /\ kd["main"].ret.kind = "returned"
    /\ kd["main"].ret.value.source = PyStr(<<"fallback_method">>)

\* the stages of the current run are those of StageNames, from the first on
TraceInOrder ==
    /\ Len(trace) <= Len(StageNames)
    /\ \A i \in 1..Len(trace) : trace[i].stage = StageNames[i]

\* C4: when the invocation of stage k raises, stage k is the last stage the
\* run invokes, and run has returned the error record whose message is the
\* text of what stage k raised.
C4_AbortOnFirstFailure ==
    /\ TraceInOrder
    /\ \A i \in 1..Len(trace) :
           trace[i].raised =>
               /\ i = Len(trace)
               /\ rpc = "done"
               /\ ret = Returned([status |-> "error", message |-> trace[i].text])

C4_Witness ==
    /\ rpc = "done"
    /\ Len(trace) = 3
    /\ trace[3].stage = "grammar"
    /\ trace[3].raised
    /\ ret.value.message = "stage timed out"

\* some stage invocation of the current run raised
SomeStageRaised == \E i \in 1..Len(trace) : trace[i].raised

\* the last stage invoked returned, and the logger line after it passed
LastStagePassed ==
    \/ trace = << >>
    \/ /\ ~trace[Len(trace)].raised
       /\ trace[Len(trace)].stage \in {"visual", "social"} => HasLen(trace[Len(trace)].value)

\* the run went on to look up a stage the registry does not hold
LookupFailed ==
    /\ rpc = "done"
    /\ Len(trace) < Len(StageNames)
    /\ LastStagePassed
    /\ StageNames[Len(trace) + 1] \notin modules

\* C5: run ends by returning a record, never by raising; the record's
\* status is "success" or "error", and it is "error" whenever a stage
\* invocation raised or a stage lookup failed (with the KeyError's text).
C5_RunNeverRaises ==
    /\ rpc \in {"new", "ready"} \/ ret.kind \in {"none", "returned"}
    /\ rpc = "done" =>
           /\ ret.kind = "returned"
           /\ ret.value.status \in {"success", "error"}
           /\ SomeStageRaised => ret.value.status = "error"
           /\ LookupFailed =>
                  ret.value = [status |-> "error",
                               message |-> KeyErrorText(StageNames[Len(trace) + 1])]
    /\ rpc \notin {"new", "ready", "done"} => ret = NoRet

C5_Witness ==
    /\ LookupFailed
    /\ Len(trace) = 3
    /\ ret.value.message = "'visual'"

\* the nine stages were invoked and each returned
AllNineReturned ==
    /\ Len(trace) = Len(StageNames)
    /\ ~SomeStageRaised

\* C6: run returns a success record exactly when the nine stages were
\* invoked and each returned; the record then holds publish's return as
\* url, promote's as social_posts and draft's as email_draft, and nothing
\* else; an error record holds status and message only.
C6_SuccessIffAllNine ==
    rpc = "done" =>
        /\ ret.kind = "returned"
        /\ ret.value.status = "success" <=> AllNineReturned
        /\ ret.value.status = "success" =>
               ret.value = [status |-> "success", url |-> trace[5].value,
                            social_posts |-> trace[7].value,
                            email_draft |-> trace[8].value]
        /\ ret.value.status # "success" =>
               /\ ret.value.status = "error"
               /\ DOMAIN ret.value = {"status", "message"}

C6_Witness ==
    /\ rpc = "done"
    /\ ret.kind = "returned"
    /\ ret.value.status = "success"
    /\ trace[2].value = "draft"
    /\ trace[3].value = "edited"
    /\ ret.value.url = "https://blog.example/post"

\* the call main is in follows a call for the same topic that found no
\* entry and returned
SecondOfTwo ==
    /\ kd["main"].pc # "idle"
    /\ last.topic = kd["main"].topic
    /\ ~last.entry.exists
    /\ last.ret.kind = "returned"

\* C7: of two consecutive calls discover(topic) that start from a cache
\* without an entry for the topic, the second invokes no provider and not
\* the fallback and returns a result equal to the one the first returned,
\* field for field.
C7_SecondCallIdentical ==
    SecondOfTwo =>
        /\ seen["main"].invoked = << >>
        /\ kd["main"].pc = "done" => kd["main"].ret = Returned(last.ret.value)

C7_Witness ==
    /\ SecondOfTwo
    /\ kd["main"].pc = "done"
    /\ kd["main"].ret.kind = "returned"
    /\ "generated_at" \in DOMAIN kd["main"].ret.value
    /\ Len(kd["main"].ret.value.related_queries) = 10

\* the entry was there when the call was made and cannot be parsed
UnreadableAtCall(p) == seen[p].entry.exists /\ ~JsonLoad(seen[p].entry.data).ok

\* C8: a call that finds an entry it cannot read or parse does not raise:
\* it goes through the chain and returns a result.
C8_UnreadableEntryIsAbsence ==
    \A p \in Procs :
        (kd[p].pc = "done" /\ UnreadableAtCall(p)) =>
            /\ kd[p].ret.kind = "returned"
            /\ seen[p].invoked # << >>

\* C9: a call that missed the cache returns the result of its chain,
\* whether or not the write of lines 74-75 succeeded.
C9_WriteFailureIsNoOp ==
    \A p \in Procs :
        (kd[p].pc = "done" /\ seen[p].invoked # << >>) =>
            kd[p].ret = Returned(kd[p].result)

IsKeywordResult(v) ==
    /\ v # None
    /\ {"primary_keyword", "related_queries", "top_urls", "metrics", "source"}
           \subseteq DOMAIN v

\* the statements of discover, in the order of the source
PcOrder == << "idle", "exists", "load", "serpapi", "keywordsurfer", "google_trends",
              "fallback", "open", "dump", "done" >>

Rank(pc) == CHOOSE i \in 1..Len(PcOrder) : PcOrder[i] = pc

\* the call of process p stands at a statement of discover: the action of
\* each statement is guarded by that position alone, so the call can step
CanStep(p) ==
    /\ \E i \in 2..(Len(PcOrder) - 1) : PcOrder[i] = kd[p].pc
    /\ clock <= MaxClock

\* C10: every call of discover ends (it is never stuck, and each of its
\* steps moves it forward through the statements); a call in which no cache
\* operation failed ends by returning one KeywordResult, whichever of the
\* providers failed: a call raises only what a cache operation raised.
C10_ProviderFailuresContained ==
    /\ [](\A p \in Procs :
             /\ kd[p].pc = "done" =>
                    IF seen[p].faults = << >>
                    THEN kd[p].ret.kind = "returned" /\ IsKeywordResult(kd[p].ret.value)
                    ELSE kd[p].ret.kind = "raised"
             /\ kd[p].pc \notin {"idle", "done"} => CanStep(p))
    /\ [][\A p \in Procs :
             \/ kd'[p] = kd[p]
             \/ kd'[p].pc = "exists" /\ kd[p].pc \in {"idle", "done"}
             \/ Rank(kd'[p].pc) > Rank(kd[p].pc)]_vars

C10_Witness ==
    /\ kd["main"].pc = "done"
    /\ seen["main"].faults = << >>
    /\ Len(seen["main"].fetched) = 3
    /\ seen["main"].fetched[1] = None
    /\ seen["main"].fetched[2] = None
    /\ kd["main"].ret = Returned(GoogleTrendsResult(kd["main"].topic))

\* process p is in a call that has returned a value
HasReturned(p) == kd[p].pc = "done" /\ kd[p].ret.kind = "returned"

\* C11: every result a call discover(topic) returns has primary_keyword
\* equal to the topic of that call, whether the result came from a provider,
\* from the fallback or from the cache.
C11_PrimaryKeywordIsTopic ==
    \A p \in Procs :
        HasReturned(p) =>
            /\ "primary_keyword" \in DOMAIN kd[p].ret.value
            /\ kd[p].ret.value.primary_keyword = PyStr(kd[p].topic)

\* the identifier each unit of the chain puts in the source field
SourceId(unit) ==
    CASE unit = "serpapi" -> PyStr(<<"serpapi_simulation">>)
      [] unit = "keywordsurfer" -> PyStr(<<"keywordsurfer_simulation">>)
      [] unit = "google_trends" -> PyStr(<<"google_trends_simulation">>)
      [] unit = "fallback" -> PyStr(<<"fallback_method">>)

\* the last write to `path` that completed is the i-th write
IsLatestWrite(i, path) ==
    /\ i \in 1..Len(writes)
    /\ writes[i].path = path
    /\ \A j \in (i + 1)..Len(writes) : writes[j].path # path

\* C12: the source of every result discover returns is the identifier of
\* one of the four units; on a miss it is that of the unit the call invoked
\* last, whose data the result is; on a hit it is the source stored in the
\* entry, which is that of the unit that had computed the stored data.
C12_SourceNamesOrigin ==
    \A p \in Procs :
        HasReturned(p) =>
            LET v == kd[p].ret.value
                s == seen[p]
            IN  /\ "source" \in DOMAIN v
                /\ \E i \in 1..Len(ChainOrder) : v.source = SourceId(ChainOrder[i])
                /\ IF s.invoked # << >>
                   THEN /\ v.source = SourceId(s.invoked[Len(s.invoked)])
                        /\ v = s.fetched[Len(s.fetched)]
                   ELSE /\ v.source = JsonLoad(s.entry.data).val.source
                        /\ \E i \in 1..Len(writes) :
                               /\ IsLatestWrite(i, kd[p].cache_file)
                               /\ writes[i].doc = s.entry.data
                               /\ v.source = SourceId(writes[i].unit)

C12_Witness ==
    /\ HasReturned("main")
    /\ seen["main"].invoked = << >>
    /\ Len(writes) = 1
    /\ writes[1].unit = "google_trends"
    /\ kd["main"].ret.value.source = PyStr(<<"google_trends_simulation">>)

\* process p is in the statements of a miss that write the entry of `path`
Writing(p, path) == kd[p].cache_file = path /\ kd[p].pc \in {"open", "dump"}

\* C13: an entry is written only by the call that found no file for its
\* key, in its lines 74-75; once that call is over the entry is never
\* modified or removed: a call that finds the file writes nothing, and no
\* call touches the entry of another key; a miss that returns has left its
\* result as the entry.
C13_EntriesNeverModified ==
    /\ [][\A f \in CacheFiles :
              files'[f] # files[f] =>
                  /\ files'[f].exists
                  /\ \E p \in Procs : Writing(p, f) /\ ~seen[p].entry.exists]_vars
    /\ [][\A f \in CacheFiles :
              (files[f].exists /\ ~\E p \in Procs : Writing(p, f)) =>
                  files'[f] = files[f]]_vars
    /\ [](\A p \in Procs :
              (HasReturned(p) /\ seen[p].invoked # << >>) =>
                  files[kd[p].cache_file] =
                      [exists |-> TRUE, data |-> JsonDump(kd[p].ret.value)])

C13_Witness ==
    /\ HasReturned("main")
    /\ seen["main"].entry.exists
    /\ seen["main"].invoked = << >>
    /\ calls = 2
    /\ files[kd["main"].cache_file] = seen["main"].entry
    /\ writes[1].doc = files[kd["main"].cache_file].data

\* two topics that differ only in how many spaces stand in a row
SameUpToSpaces(t, u) == t # u /\ Collapse(t) = Collapse(u)

\* C14: two topics that differ only in the number of consecutive spaces
\* have different cache keys, and the file a call for one of them consults
\* is never one that a write for the other has written.
C14_SpacesNotCollapsed ==
    /\ \A t, u \in Topics : SameUpToSpaces(t, u) => CacheFile(t) # CacheFile(u)
    /\ \A p \in Procs :
           kd[p].pc # "idle" =>
               /\ kd[p].cache_file = CacheFile(kd[p].topic)
               /\ \A i \in 1..Len(writes) :
                      SameUpToSpaces(writes[i].topic, kd[p].topic) =>
                          writes[i].path # kd[p].cache_file

C14_Witness ==
    /\ HasReturned("main")
    /\ kd["main"].topic = <<"a", " ", " ", "b">>
    /\ Len(writes) = 2
    /\ writes[1].topic = <<"a", " ", "b">>
    /\ SameUpToSpaces(writes[1].topic, kd["main"].topic)
    /\ seen["main"].invoked # << >>
    /\ files[CacheFile(<<"a", " ", "b">>)].data = writes[1].doc

\* the registry holds the nine stages
AllStages == FirstStages(Len(StageNames))

\* construction met a failure: the configuration could not be loaded
\* (_load_config returned {}), or _load_modules stopped before its end
LoadFailed == rpc # "new" /\ (config = "{}" \/ modules # AllStages)

\* C15: after a configuration-load failure or a module-load failure the
\* orchestrator is constructed all the same, its registry is empty or
\* partial, and every run returns an error record, never a success record
\* and never an exception; where no stage raised, the error is the failed
\* lookup of the first stage the registry lacks.
C15_DegradedAfterLoadFailure ==
    LoadFailed =>
        /\ modules # AllStages
        /\ rpc = "done" =>
               /\ ret.kind = "returned"
               /\ ret.value.status = "error"
               /\ LookupFailed =>
                      ret.value.message = KeyErrorText(StageNames[Len(trace) + 1])

\* the Python str q has t as a substring
Contains(q, t) ==
    \E i \in 1..(Len(q) - Len(t)) : SubSeq(Tail(q), i, i + Len(t) - 1) = t

\* what stands before and after the topic in each of the ten queries
QueryPatterns ==
    << <<"", " guide">>, <<"how to ", "">>, <<"best ", " practices">>,
       <<"", " examples">>, <<"", " tutorial">>, <<"", " for beginners">>,
       <<"advanced ", "">>, <<"", " tips">>, <<"", " 2025">>, <<"", " tools">> >>

Piece(text) == IF text = "" THEN << >> ELSE <<text>>

\* C16: what the fallback generator returns for a topic has exactly ten
\* related_queries, each containing the topic as a substring, in one fixed
\* order of patterns that depends neither on the topic nor on the time.
C16_FallbackTenQueries ==
    \A p \in Procs :
        \A n \in 1..Len(seen[p].invoked) :
            seen[p].invoked[n] = "fallback" =>
                LET q == seen[p].fetched[n].related_queries
                IN  /\ Len(q) = 10
                    /\ \A k \in 1..Len(q) : Contains(q[k], kd[p].topic)
                    /\ \A k \in 1..Len(q) :
                           q[k] = PyStr(Piece(QueryPatterns[k][1]) \o kd[p].topic
                                            \o Piece(QueryPatterns[k][2]))

C16_Witness ==
    /\ HasReturned("main")
    /\ kd["main"].topic = <<"a", " ", " ", "b">>
    /\ Len(seen["main"].invoked) = 4
    /\ seen["main"].invoked[4] = "fallback"
    /\ Len(kd["main"].ret.value.related_queries) = 10
    /\ kd["main"].ret.value.related_queries[10] = PyStr(<<"a", " ", " ", "b", " tools">>)

\* the i-th stage invoked returned, and the statement after it passed
StagePassed(i) ==
    /\ ~trace[i].raised
    /\ trace[i].stage \in {"visual", "social"} => HasLen(trace[i].value)

\* C17: the stages a run invokes are the first stages of the fixed order,
\* each once; a stage is invoked only after those before it have returned;
\* the stage the run is about to invoke is the one after the last invoked;
\* a step of the run adds at most one invocation and never takes one back.
C17_StagesInOrder ==
    /\ [](/\ Len(trace) <= Len(StageNames)
          /\ \A i \in 1..Len(trace) : trace[i].stage = StageNames[i]
          /\ \A i \in 1..(Len(trace) - 1) : StagePassed(i)
          /\ Len(trace) >= 2 => kd["main"].ret = Returned(trace[1].value)
          /\ \A k \in 1..Len(StageNames) :
                 rpc = StageNames[k] => Len(trace) = k - 1
          /\ rpc = "discovering" => Len(trace) = 1)
    /\ [][\/ trace' = << >> /\ rpc' = "keyword"
          \/ /\ Len(trace') = Len(trace)
             /\ \A i \in 1..(Len(trace) - 1) : trace'[i] = trace[i]
             /\ trace' # trace => rpc = "discovering"
          \/ /\ Len(trace') = Len(trace) + 1
             /\ SubSeq(trace', 1, Len(trace)) = trace]_vars

C17_Witness ==
    /\ rpc = "done"
    /\ Len(trace) = Len(StageNames)
    /\ \A i \in 1..Len(trace) : StagePassed(i)
    /\ trace[9].stage = "analytics"
    /\ trace[4].value = "[image]"

\* the call of process p has invoked `unit`
HasInvoked(p, unit) == \E i \in 1..Len(seen[p].invoked) : seen[p].invoked[i] = unit

\* C18: within one call of discover no unit is invoked twice; a unit is
\* invoked only after every unit before it in the order SerpAPI,
\* KeywordSurfer, Google Trends, fallback has been invoked and has failed;
\* once the chain is over, the fallback has been invoked exactly if the
\* three providers have all been invoked and have all failed.
C18_ProvidersOnceInOrder ==
    \A p \in Procs :
        LET s == seen[p]
        IN  /\ Len(s.fetched) = Len(s.invoked)
            /\ \A i, j \in 1..Len(s.invoked) : s.invoked[i] = s.invoked[j] => i = j
            /\ \A i \in 1..Len(s.invoked) :
                   /\ i <= Len(ChainOrder)
                   /\ s.invoked[i] = ChainOrder[i]
                   /\ \A j \in 1..(i - 1) : s.fetched[j] = None
            /\ ChainDone(p) => (HasInvoked(p, "fallback") <=> AllProvidersFailed(p))
            /\ ChainDone(p) => HasInvoked(p, "serpapi")

C18_Witness ==
    /\ kd["main"].pc = "dump"
    /\ seen["main"].invoked = ChainOrder
    /\ seen["main"].fetched[3] = None
    /\ seen["main"].fetched[4] # None

\* the two processes have each finished a call for one topic, the first of
\* them to start found no entry, and no write met an I/O failure
BothFinished ==
    /\ \A p \in Procs : kd[p].pc = "done"
    /\ kd["main"].topic = kd["other"].topic
    /\ \E p \in Procs : ~seen[p].entry.exists
    /\ \A p \in Procs :
           \A i \in 1..Len(seen[p].faults) : seen[p].faults[i] \notin {"open", "dump"}

\* C19: when two calls of discover for one topic interleave on a cache
\* without an entry for it, each returns a complete KeywordResult and none
\* raises, and once both are over the entry is the complete document of the
\* write that completed last.
C19_ConcurrentLastWriteWins ==
    BothFinished =>
        /\ \A p \in Procs : HasReturned(p) /\ IsKeywordResult(kd[p].ret.value)
        /\ Len(writes) >= 1
        /\ files[kd["main"].cache_file] =
               [exists |-> TRUE, data |-> writes[Len(writes)].doc]

\* what the i-th stage is to receive, from what the earlier stages returned
Threaded(i) ==
    CASE i = 1 -> <<loc.topic>>
      [] i = 2 -> <<trace[1].value>>
      [] i = 3 -> <<trace[2].value>>
      [] i = 4 -> <<trace[3].value>>
      [] i = 5 -> <<trace[3].value, trace[4].value>>
      [] i = 6 -> <<trace[3].value, trace[5].value>>
      [] i = 7 -> <<trace[5].value, trace[3].value>>
      [] i = 8 -> <<trace[5].value, trace[3].value>>
      [] i = 9 -> <<trace[5].value>>

\* C20: in every run create receives what discover returned, check what
\* create returned; generate, publish, apply, promote and draft receive
\* what check returned, publish also what generate returned; apply,
\* promote, draft and setup_tracking receive what publish returned; what
\* apply returned is in no later stage's input and in no field of the
\* record run returns.
C20_OutputsThreaded ==
    /\ \A i \in 1..Len(trace) : trace[i].args = Threaded(i)
    /\ Len(trace) >= 2 => trace[1].value = kd["main"].ret.value
    /\ (rpc = "done" /\ ret.value.status = "success") =>
           /\ ret.value.url = trace[5].value
           /\ ret.value.social_posts = trace[7].value
           /\ ret.value.email_draft = trace[8].value
           /\ DOMAIN ret.value = {"status", "url", "social_posts", "email_draft"}

C20_Witness ==
    /\ rpc = "done"
    /\ ret.value.status = "success"
    /\ Len(trace) = 9
    /\ trace[2].value = "draft"
    /\ trace[3].value = "edited"
    /\ trace[6].value = "with ads"
    /\ trace[8].args = <<"https://blog.example/post", "edited">>

=============================================================================
